---- MODULE Spec2Model ----
(***************************************************************************)
(* ClaudeStack: the router (src/router.py) and the agent workers           *)
(* (src/agents/agent_runner.py) as polling loops that hand messages over   *)
(* through files.  Every file read, file write and external call of a      *)
(* poll is a step of its own, so that the loops interleave the way the     *)
(* separate OS processes do.                                               *)
(***************************************************************************)
EXTENDS Naturals, Sequences, FiniteSets, TLC

(* The router stamps an envelope with the wall clock (1 s resolution) and  *)
(* sleeps 2 s after every cycle, so successive envelopes carry different   *)
(* stamps.  clock counts the routed cycles; MaxClock bounds them.          *)
MaxClock == 2

(* The number of process starts a behaviour contains. *)
MaxStarts == 3

(* The number of writes of the producer in a behaviour that ends them. *)
MaxWrites == 3

\* ------------------------------------------------------------------ text
(* File content is a sequence of tokens.  A token is whitespace, a         *)
(* character of a user message, or a piece of the text a component writes. *)
Ws == [k |-> "ws", s |-> " ", n |-> 0]

Ch(c) == [k |-> "ch", s |-> c, n |-> 0]

Hdr(ts, intent) == [k |-> "hdr", s |-> intent, n |-> ts]

EndMark == [k |-> "end", s |-> "---", n |-> 0]

OutHdr(agent) == [k |-> "out", s |-> agent, n |-> 0]

ErrTok(e) == [k |-> "err", s |-> e, n |-> 0]

Marker == [k |-> "gen", s |-> "*Generated by ClaudeStack Agent Runner*", n |-> 0]

RECURSIVE LStrip(_)
LStrip(s) == IF s # <<>> /\ Head(s) = Ws THEN LStrip(Tail(s)) ELSE s

RECURSIVE RStrip(_)
RStrip(s) == IF s # <<>> /\ s[Len(s)] = Ws THEN RStrip(SubSeq(s, 1, Len(s) - 1)) ELSE s

(* str.strip() *)
Strip(s) == RStrip(LStrip(s))

\* ----------------------------------------------------------------- files
NoFile == [exists |-> FALSE, data |-> <<>>]

File(d) == [exists |-> TRUE, data |-> d]

(* A file that was moved out of its place: the path does not exist, the   *)
(* content is kept where it was moved to.  Nothing reads the data of a     *)
(* path that does not exist.                                               *)
Moved(f) == [exists |-> FALSE, data |-> f.data]

(* Python's None, and an MD5 digest.  MD5 is taken as collision free: the  *)
(* digest of a content stands for that content and nothing else.           *)
NoHash == [some |-> FALSE, md5 |-> <<>>]

Md5(d) == [some |-> TRUE, md5 |-> d]

(* Variant: the digest of the trimmed content. *)
StrippedFileHash(f) == IF ~f.exists THEN NoHash ELSE Md5(Strip(f.data))

get_file_hash(f) == IF ~f.exists THEN NoHash ELSE Md5(f.data)

(* What the external producer puts into inbox/chat.txt. *)
ChatContents ==
  { <<>>, <<Ws>>, <<Ch("a")>>, <<Ws, Ch("a")>> }

\* -------------------------------------------------------- dispatch table
AgentIds == {"planner", "helper", "designer", "coder", "reviewer", "tester"}

(* The agent identifiers a worker process can be started for. *)
Workers == {"helper", "coder"}

DefaultRules ==
  ( "feature_request" :> "planner" @@ "code_question" :> "helper"
    @@ "ui_request" :> "designer" @@ "bug_fix" :> "coder"
    @@ "code_review" :> "reviewer" @@ "testing" :> "tester"
    @@ "general" :> "helper" )

(* A hand-edited config/routing_rules.json: no "general" key, and a key    *)
(* that the classification prompt does not list.                           *)
CustomRules == ( "feature_request" :> "coder" @@ "deploy" :> "tester" )

RuleConfigs == {DefaultRules, CustomRules}

(* Variant: every message goes to the helper. *)
ResolveAlwaysHelper(rules, intent) == "helper"

(* self.routing_rules.get(intent, "helper") *)
ResolveRoute(rules, intent) ==
  IF intent \in DOMAIN rules THEN rules[intent] ELSE "helper"

\* --------------------------------------------------------- configuration
(* A Python dict literal is a sequence of pairs in insertion order. *)
Pair(k, v) == [key |-> k, val |-> v]

(* json.dump: the keys and values as text, in the dict's order. *)
RECURSIVE json_dump(_)
json_dump(table) ==
  IF table = <<>> THEN <<>>
  ELSE <<Head(table).key, Head(table).val>> \o json_dump(Tail(table))

(* json.load: the mapping of a JSON object; of a repeated key the last    *)
(* value counts.                                                           *)
json_load(text) ==
  LET n == Len(text) \div 2
      last(k) == CHOOSE i \in 1..n :
                   /\ text[2 * i - 1] = k
                   /\ \A j \in (i + 1)..n : text[2 * j - 1] # k
  IN [k \in {text[2 * i - 1] : i \in 1..n} |-> text[2 * last(k)]]

(* router.py:48-56 default_rules *)
DefaultTable ==
  << Pair("feature_request", "planner"), Pair("code_question", "helper"),
     Pair("ui_request", "designer"), Pair("bug_fix", "coder"),
     Pair("code_review", "reviewer"), Pair("testing", "tester"),
     Pair("general", "helper") >>

(* The text of a hand-edited config/routing_rules.json. *)
CustomText == <<"feature_request", "coder", "deploy", "tester">>

RuleFiles == {File(json_dump(DefaultTable)), File(CustomText)}

Sonnet == "claude-3-5-sonnet-20241022"

Opus == "claude-3-opus-20240229"

(* agent_runner.py:61-71 default_assignments *)
DefaultAssignments ==
  << Pair("chat", Sonnet), Pair("planner", Opus), Pair("tasker", Sonnet),
     Pair("coder", Sonnet), Pair("reviewer", Opus), Pair("tester", Sonnet),
     Pair("designer", Opus), Pair("frontend", Sonnet), Pair("helper", Sonnet) >>

(* The text of a hand-edited config/model_assignments.json that names no  *)
(* model for the coder.                                                    *)
CustomAssignText == <<"helper", Opus>>

(* The dict a literal of pairs denotes. *)
Dict(table) == json_load(json_dump(table))

(* router.py:44-61: the rules a start of the router holds in memory. *)
load_routing_rules(f) ==
  IF f.exists THEN json_load(f.data) ELSE Dict(DefaultTable)

RulesRewritten(f) == File(json_dump(DefaultTable))

(* router.py:57-60: the rules file a start of the router leaves. *)
RulesAfterLoad(f) == IF f.exists THEN f ELSE File(json_dump(DefaultTable))

(* agent_runner.py:73-83: the model a start of worker a holds in memory. *)
load_model_assignment(a, f) ==
  LET assignments == IF f.exists THEN json_load(f.data)
                     ELSE Dict(DefaultAssignments)
  IN IF a \in DOMAIN assignments THEN assignments[a] ELSE Sonnet

(* agent_runner.py:76-81: the assignments file a start of a worker leaves. *)
AssignAfterLoad(f) ==
  IF f.exists THEN f ELSE File(json_dump(DefaultAssignments))

(* The identifiers a worker process is started with: the two workers and  *)
(* one the code has no built-in persona for.                               *)
Personas == Workers \cup {"scribe"}

(* agent_runner.py:102-216: the identifiers with a built-in persona. *)
KnownPersonas ==
  {"chat", "planner", "tasker", "coder", "reviewer", "tester", "designer",
   "frontend", "helper"}

(* The text of a built-in persona, and of the generic one naming the agent. *)
Builtin(a) == [k |-> "persona", s |-> a, n |-> 0]

Generic(a) == [k |-> "generic", s |-> a, n |-> 0]

(* agent_runner.py:100-222: each literal starts and ends with a newline. *)
get_default_prompt(a) ==
  <<Ws, IF a \in KnownPersonas THEN Builtin(a) ELSE Generic(a), Ws>>

NoPrompt == <<>>

(* agent_runner.py:85-98: the template a start of worker a holds in memory. *)
load_prompt_template(a, f) ==
  IF f.exists THEN Strip(f.data) ELSE get_default_prompt(a)

(* agent_runner.py:93-97: the prompt file a start of worker a leaves. *)
PromptAfterLoad(a, f) == IF f.exists THEN f ELSE File(get_default_prompt(a))

\* ------------------------------------------------------------ classifier
(* The text the model answers with: a label, possibly in mixed case,       *)
(* possibly with surrounding whitespace.                                   *)
Str(label, upper, pad) == [label |-> label, upper |-> upper, pad |-> pad]

StrStrip(t) == [t EXCEPT !.pad = FALSE]

StrLower(t) == [t EXCEPT !.upper = FALSE]

(* `t in rules`: the keys are plain lower-case labels. *)
IsKey(t, rules) == ~t.pad /\ ~t.upper /\ t.label \in DOMAIN rules

(* The outcomes of client.messages.create: an answer or an exception. *)
Answer(t) == [ok |-> TRUE, text |-> t]

CallFailed == [ok |-> FALSE, text |-> Str("", FALSE, FALSE)]

ClassifyOutcomes ==
  { Answer(Str("feature_request", TRUE, TRUE)), Answer(Str("deploy", FALSE, FALSE)),
    Answer(Str("", FALSE, TRUE)), CallFailed }

Normalize(t) == StrLower(StrStrip(t))

(* Variant: the answer is normalised but not validated. *)
ClassifyRaw(rules, outcome) ==
  IF ~outcome.ok THEN "general" ELSE Normalize(outcome.text).label

(* classify_intent's result for an outcome of the external call. *)
ClassifyResult(rules, outcome) ==
  IF ~outcome.ok THEN "general"
  ELSE IF IsKey(Normalize(outcome.text), rules)
       THEN Normalize(outcome.text).label
       ELSE "general"

\* -------------------------------------------------------------- envelope
EnvelopeHead(intent, ts) == <<Hdr(ts, intent)>>

EnvelopeRest(message) == message \o <<EndMark, Ws>>

routed_content(message, intent, ts) == EnvelopeHead(intent, ts) \o EnvelopeRest(message)

(* output_content of check_for_input; its time stamp decides nothing and  *)
(* is left out.                                                            *)
output_content(agent, output) ==
  <<OutHdr(agent)>> \o output \o <<EndMark, Marker, Ws>>

(* The body of a response file: what lies between header and trailer. *)
ResponseBody(d) == SubSeq(d, 2, Len(d) - 3)

(* The outcomes of the generation call: generated text or an exception    *)
(* with its message.                                                       *)
Generated == [ok |-> TRUE, text |-> <<Ch("r")>>]

GenFailed == [ok |-> FALSE, text |-> <<Ch("e")>>]

GenOutcomes == {Generated, GenFailed}

(* Variant: a failed call yields an empty response. *)
ProcessResultSilent(outcome) == IF outcome.ok THEN outcome.text ELSE <<>>

(* process_input's return value for an outcome of the external call. *)
ProcessResult(outcome) ==
  IF outcome.ok THEN outcome.text
  ELSE <<ErrTok("Error processing request: ")>> \o outcome.text

\* ------------------------------------------------------------------ log
LogTruncate(l, recs) == recs

(* router.py:137-138, agent_runner.py:245-246: open(log_file, 'a') and    *)
(* one write of the whole entry.                                           *)
LogAppend(l, recs) == l \o recs

RoutedRecordUnnamed(intent, target, ts) ==
  [who |-> "router", kind |-> "routed", s |-> "", t |-> "", n |-> ts, m |-> 0]

(* router.py:127-128 log_entry *)
RoutedRecord(intent, target, ts) ==
  [who |-> "router", kind |-> "routed", s |-> intent, t |-> target, n |-> ts, m |-> 0]

ClassifyErrorRecord ==
  [who |-> "router", kind |-> "classify_error", s |-> "", t |-> "", n |-> 0, m |-> 0]

ProcessedRecord(agent, input, out) ==
  [who |-> agent, kind |-> "processed", s |-> "", t |-> "", n |-> Len(input),
   m |-> Len(out)]

\* ---------------------------------------------------------------- state
VARIABLES
  chat,             \* inbox/chat.txt
  inbox,            \* inbox/<agent>.md
  outbox,           \* outbox/<agent>.md
  log,              \* logs/messages.log, a sequence of records
  clock,            \* the wall clock, in routed cycles
  routing_rules,    \* ClaudeStackRouter.routing_rules
  rpc,              \* where the router is in process_chat_input
  last_chat_hash,   \* ClaudeStackRouter.last_chat_hash
  rcur,             \* process_chat_input: current_hash
  rraw,             \* process_chat_input: what f.read() returned
  reply,            \* classify_intent: the outcome of the external call
  intent,           \* process_chat_input: intent
  target_agent,     \* route_message: target_agent
  rrepd,            \* history: the digest computed by the last poll that returned True
  rprev,            \* history: the digest computed by the previous poll
  apc,              \* where each worker is in check_for_input
  last_input_hash,  \* ClaudeStackAgent.last_input_hash
  acur,             \* check_for_input: current_hash
  araw,             \* check_for_input: what f.read() returned
  acall,            \* process_input: the outcome of the external call
  output,           \* check_for_input: output
  alogged,          \* history: the records log_interaction appended in this cycle
  arepd,            \* history, as rrepd
  calls,            \* history: the inputs each worker sent to the external service
  sup,              \* history: "W" while an envelope is written and "A" while
                    \* it is complete and its worker has not looked at the inbox
                    \* since the write began, "AB" while the envelope that
                    \* overwrites such a one is written and the worker does not look
  lost,             \* history: the stamps of the envelopes overwritten unseen
  once,             \* history: the stamps of the envelopes that overwrote them
  gone,             \* history: the location was absent since the watcher's last report
  hist,             \* which history a specification records: "handoff" for
                    \* calls, sup, lost and once, "prev" for rprev, "gone" for gone,
                    \* "live" for a producer that stops after MaxWrites writes
  credential,       \* the environment has ANTHROPIC_API_KEY
  rules_file,       \* config/routing_rules.json
  assign_file,      \* config/model_assignments.json
  model,            \* ClaudeStackAgent.model
  regen,            \* history: how often a router start wrote the default rules
  starts,           \* history: the number of process starts so far
  writes,           \* history: the number of writes of a producer that stops
  prompt_file,      \* prompts/<agent>.txt
  prompt_template   \* ClaudeStackAgent.prompt_template

files == <<chat, inbox, outbox, log, clock>>

rvars == <<routing_rules, rpc, last_chat_hash, rcur, rraw, reply, intent,
           target_agent, rrepd, rprev>>

avars == <<apc, last_input_hash, acur, araw, acall, output, alogged, arepd>>

hvars == <<calls, sup, lost, once, gone, hist>>

pvars == <<prompt_file, prompt_template>>

svars == <<credential, rules_file, assign_file, model, regen, starts, writes, pvars>>

vars == <<files, rvars, avars, hvars, svars>>

Watchers == {"router"} \cup Workers

NoOutcome == CallFailed

NoGen == [ok |-> TRUE, text |-> <<>>]

(* The state after the router and the workers of `started` were           *)
(* constructed, with the routing rules `rules` loaded.                     *)
InitWith(rules, started, recorded) ==
  /\ chat = NoFile
  /\ inbox = [a \in AgentIds |-> NoFile]
  /\ outbox = [a \in Workers |-> NoFile]
  /\ log = <<>>
  /\ clock = 1
  /\ routing_rules \in rules
  /\ rpc = "idle"
  /\ last_chat_hash = NoHash
  /\ rcur = NoHash
  /\ rraw = <<>>
  /\ reply = NoOutcome
  /\ intent = ""
  /\ target_agent = ""
  /\ rrepd = NoHash
  /\ rprev = NoHash
  /\ apc = [a \in Workers |-> IF a \in started THEN "idle" ELSE "off"]
  /\ last_input_hash = [a \in Workers |-> NoHash]
  /\ acur = [a \in Workers |-> NoHash]
  /\ araw = [a \in Workers |-> <<>>]
  /\ acall = [a \in Workers |-> NoGen]
  /\ output = [a \in Workers |-> <<>>]
  /\ alogged = [a \in Workers |-> 0]
  /\ arepd = [a \in Workers |-> NoHash]
  /\ calls = [a \in Workers |-> <<>>]
  /\ sup = [a \in Workers |-> "no"]
  /\ lost = {}
  /\ once = {}
  /\ gone = [w \in Watchers |-> FALSE]
  /\ hist = recorded
  /\ credential = TRUE
  /\ rules_file \in {f \in RuleFiles : json_load(f.data) = routing_rules}
  /\ assign_file = File(json_dump(DefaultAssignments))
  /\ model = [a \in Personas |-> IF a \in started THEN load_model_assignment(a, assign_file) ELSE ""]
  /\ prompt_file = [a \in Personas |-> IF a \in started THEN File(get_default_prompt(a)) ELSE NoFile]
  /\ prompt_template = [a \in Personas |-> IF a \in started THEN get_default_prompt(a) ELSE NoPrompt]
  /\ regen = "none"
  /\ starts = 0
  /\ writes = 0

\* --------------------------------------------------------------- router
(* process_chat_input returns False: the locals are gone, the digest this *)
(* poll computed becomes the previous poll's.                              *)
RouterReturnFalse(h) ==
  /\ rpc' = "idle"
  /\ rprev' = IF "prev" \in hist THEN h ELSE rprev
  /\ rcur' = NoHash
  /\ rraw' = <<>>
  /\ UNCHANGED <<routing_rules, last_chat_hash, reply, intent, target_agent, rrepd>>

(* Variant: a poll that finds no file forgets the remembered digest. *)
RouterAbsentForgets ==
  /\ last_chat_hash' = NoHash
  /\ UNCHANGED <<routing_rules, rpc, rcur, rraw, reply, intent, target_agent,
                 rrepd, rprev>>

(* router.py:144-145 `return False` when the file does not exist *)
RouterAbsent == UNCHANGED rvars

(* router.py:144 `if not chat_file.exists(): return False` *)
RouterPoll ==
  /\ rpc = "idle"
  /\ clock <= MaxClock \/ "live" \in hist
  /\ IF ~chat.exists
     THEN RouterAbsent
     ELSE /\ rpc' = "hash"
          /\ UNCHANGED <<routing_rules, last_chat_hash, rcur, rraw, reply,
                         intent, target_agent, rrepd, rprev>>
  /\ UNCHANGED <<files, avars, hvars, svars>>

(* router.py:148-150 *)
RouterHash ==
  /\ rpc = "hash"
  /\ LET h == get_file_hash(chat)
     IN IF h = last_chat_hash
        THEN RouterReturnFalse(h)
        ELSE /\ rpc' = "read"
             /\ rcur' = h
             /\ UNCHANGED <<routing_rules, last_chat_hash, rraw, reply, intent,
                            target_agent, rrepd, rprev>>
  /\ UNCHANGED <<files, avars, hvars, svars>>

(* Variant: the content is tested before it is trimmed. *)
EmptyUnstripped(raw) == raw = <<>>

(* router.py:156 `if not message: return False`, and agent_runner.py:291 *)
EmptyMessage(raw) == Strip(raw) = <<>>

(* router.py:153-157; open() of a file that is gone raises, and nothing   *)
(* in run() catches it.                                                    *)
RouterRead ==
  /\ rpc = "read"
  /\ IF ~chat.exists
     THEN /\ rpc' = "crashed"
          /\ UNCHANGED <<routing_rules, last_chat_hash, rcur, rraw, reply,
                         intent, target_agent, rrepd, rprev>>
     ELSE IF EmptyMessage(chat.data)
          THEN RouterReturnFalse(rcur)
          ELSE /\ rpc' = "classify"
               /\ rraw' = chat.data
               /\ UNCHANGED <<routing_rules, last_chat_hash, rcur, reply,
                              intent, target_agent, rrepd, rprev>>
  /\ UNCHANGED <<files, avars, hvars, svars>>

(* router.py:90-94: the external call returns or raises. *)
RouterClassifyCall(outcome) ==
  /\ rpc = "classify"
  /\ rpc' = "classified"
  /\ reply' = outcome
  /\ UNCHANGED <<routing_rules, last_chat_hash, rcur, rraw, intent,
                 target_agent, rrepd, rprev>>
  /\ UNCHANGED <<files, avars, hvars, svars>>

RouterRetries(outcome) == IF outcome.ok THEN "route" ELSE "classify"

(* router.py:103-105, 160-161: the handler of a failed call returns the   *)
(* fallback label and the cycle goes on to route.                          *)
RouterAfterReply(outcome) == "route"

(* router.py:95-105 *)
RouterClassified ==
  /\ rpc = "classified"
  /\ rpc' = RouterAfterReply(reply)
  /\ intent' = ClassifyResult(routing_rules, reply)
  /\ log' = IF reply.ok THEN log ELSE LogAppend(log, <<ClassifyErrorRecord>>)
  /\ reply' = NoOutcome
  /\ UNCHANGED <<routing_rules, last_chat_hash, rcur, rraw, target_agent,
                 rrepd, rprev>>
  /\ UNCHANGED <<chat, inbox, outbox, clock, avars, hvars, svars>>

(* History: the router starts to overwrite t's inbox.  An envelope that   *)
(* its worker never looked at is lost; the new one is unseen as long as   *)
(* the worker is not in the middle of looking.                             *)
Overwritten(t) ==
  IF "handoff" \notin hist \/ t \notin Workers
  THEN UNCHANGED <<lost, sup>>
  ELSE IF sup[t] = "A"
       THEN /\ lost' = lost \cup {inbox[t].data[1].n}
            /\ sup' = [sup EXCEPT ![t] = "AB"]
       ELSE /\ lost' = lost
            /\ sup' = [sup EXCEPT ![t] = IF apc[t] \in {"hash", "read"} THEN "no" ELSE "W"]

(* History: the envelope in t's inbox is complete. *)
Completed(t) ==
  IF "handoff" \notin hist \/ t \notin Workers
  THEN UNCHANGED <<once, sup>>
  ELSE /\ once' = IF sup[t] = "AB" THEN once \cup {clock} ELSE once
       /\ sup' = [sup EXCEPT ![t] = IF @ = "no" THEN "no" ELSE "A"]

RulesLearnt(rules, label) ==
  [k \in DOMAIN rules \cup {label} |-> IF k = label THEN "helper" ELSE rules[k]]

(* router.py:107-110: route_message reads self.routing_rules and assigns  *)
(* nothing to it.                                                          *)
RulesAfterRoute(rules, label) == rules

(* router.py:109-124: open(target_file, 'w') creates or truncates. *)
RouterRoute ==
  /\ rpc = "route"
  /\ rpc' = "write"
  /\ target_agent' = ResolveRoute(routing_rules, intent)
  /\ routing_rules' = RulesAfterRoute(routing_rules, intent)
  /\ inbox' = [inbox EXCEPT ![target_agent'] = File(<<>>)]
  /\ Overwritten(target_agent')
  /\ UNCHANGED <<last_chat_hash, rcur, rraw, reply, intent, rrepd, rprev>>
  /\ UNCHANGED <<chat, outbox, log, clock, avars, calls, once, gone, hist, svars>>

(* router.py:125: the text reaches the file in one write ... *)
RouterWriteAll ==
  /\ rpc = "write"
  /\ rpc' = "log"
  /\ inbox' = [inbox EXCEPT ![target_agent] =
                 File(routed_content(Strip(rraw), intent, clock))]
  /\ Completed(target_agent)
  /\ UNCHANGED <<routing_rules, last_chat_hash, rcur, rraw, reply, intent,
                 target_agent, rrepd, rprev>>
  /\ UNCHANGED <<chat, outbox, log, clock, avars, calls, lost, gone, hist, svars>>

(* ... or, when it is longer than the I/O buffer, in two. *)
RouterWritePart ==
  /\ rpc = "write"
  /\ rpc' = "write2"
  /\ inbox' = [inbox EXCEPT ![target_agent] = File(EnvelopeHead(intent, clock))]
  /\ UNCHANGED <<routing_rules, last_chat_hash, rcur, rraw, reply, intent,
                 target_agent, rrepd, rprev>>
  /\ UNCHANGED <<chat, outbox, log, clock, avars, hvars, svars>>

RouterWriteRest ==
  /\ rpc = "write2"
  /\ rpc' = "log"
  /\ inbox' = [inbox EXCEPT ![target_agent] =
                 File(inbox[target_agent].data \o EnvelopeRest(Strip(rraw)))]
  /\ Completed(target_agent)
  /\ UNCHANGED <<routing_rules, last_chat_hash, rcur, rraw, reply, intent,
                 target_agent, rrepd, rprev>>
  /\ UNCHANGED <<chat, outbox, log, clock, avars, calls, lost, gone, hist, svars>>

(* Variant: the digest of the trimmed message is remembered. *)
RouterStrippedHash == Md5(Strip(rraw))

(* router.py:164 `self.last_chat_hash = current_hash` *)
RouterUpdatedHash == rcur

(* router.py:128-129, 164-167 and the sleep of run(), router.py:179 *)
RouterLog ==
  /\ rpc = "log"
  /\ rpc' = "idle"
  /\ log' = LogAppend(log, <<RoutedRecord(intent, target_agent, clock)>>)
  /\ last_chat_hash' = RouterUpdatedHash
  /\ clock' = clock + 1
  /\ rrepd' = rcur
  /\ rprev' = IF "prev" \in hist THEN rcur ELSE rprev
  /\ rcur' = NoHash
  /\ rraw' = <<>>
  /\ intent' = ""
  /\ target_agent' = ""
  /\ gone' = [gone EXCEPT !["router"] = FALSE]
  /\ UNCHANGED <<routing_rules, reply>>
  /\ UNCHANGED <<chat, inbox, outbox, avars, calls, sup, lost, once, hist, svars>>

(* One step of the router, the external call ending in one of `outcomes`. *)
Router(outcomes) ==
  \/ RouterPoll
  \/ RouterHash
  \/ RouterRead
  \/ \E outcome \in outcomes : RouterClassifyCall(outcome)
  \/ RouterClassified
  \/ RouterRoute
  \/ RouterWriteAll
  \/ RouterLog

(* The write of an envelope that is longer than the I/O buffer. *)
RouterChunked ==
  \/ RouterWritePart
  \/ RouterWriteRest

\* --------------------------------------------------------------- worker
(* check_for_input returns False. *)
AgentReturnFalse(a) ==
  /\ apc' = [apc EXCEPT ![a] = "idle"]
  /\ acur' = [acur EXCEPT ![a] = NoHash]
  /\ araw' = [araw EXCEPT ![a] = <<>>]
  /\ UNCHANGED <<last_input_hash, acall, output, alogged, arepd>>

(* History: worker a looks at its inbox. *)
Looked(a) == sup' = [sup EXCEPT ![a] = IF "handoff" \in hist THEN "no" ELSE @]

(* agent_runner.py:279 `if not inbox_file.exists(): return False` *)
BlockedByRouter(a) == rpc \in {"classify", "classified"}

(* agent_runner.py:326-329: the loop of a worker waits for its own sleep  *)
(* and for nothing another process holds.                                  *)
Blocked(a) == FALSE

AgentPoll(a) ==
  /\ apc[a] = "idle"
  /\ ~Blocked(a)
  /\ IF ~inbox[a].exists
     THEN UNCHANGED <<avars, sup>>
     ELSE /\ apc' = [apc EXCEPT ![a] = "hash"]
          /\ Looked(a)
          /\ UNCHANGED <<last_input_hash, acur, araw, acall, output, alogged, arepd>>
  /\ UNCHANGED <<files, rvars, calls, lost, once, gone, hist, svars>>

(* agent_runner.py:283-285 *)
AgentHash(a) ==
  /\ apc[a] = "hash"
  /\ LET h == get_file_hash(inbox[a])
     IN IF h = last_input_hash[a] \/ h = NoHash
        THEN AgentReturnFalse(a)
        ELSE /\ apc' = [apc EXCEPT ![a] = "read"]
             /\ acur' = [acur EXCEPT ![a] = h]
             /\ UNCHANGED <<last_input_hash, araw, acall, output, alogged, arepd>>
  /\ Looked(a)
  /\ UNCHANGED <<files, rvars, calls, lost, once, gone, hist, svars>>

(* agent_runner.py:288-292; open() of a file that is gone raises, main()  *)
(* catches it and exits.                                                   *)
AgentRead(a) ==
  /\ apc[a] = "read"
  /\ IF ~inbox[a].exists
     THEN /\ apc' = [apc EXCEPT ![a] = "crashed"]
          /\ UNCHANGED <<last_input_hash, acur, araw, acall, output, alogged,
                         arepd, calls>>
     ELSE IF EmptyMessage(inbox[a].data)
          THEN AgentReturnFalse(a) /\ UNCHANGED calls
          ELSE /\ apc' = [apc EXCEPT ![a] = "call"]
               /\ araw' = [araw EXCEPT ![a] = inbox[a].data]
               /\ calls' = [calls EXCEPT ![a] = IF "handoff" \in hist
                                          THEN Append(@, Strip(inbox[a].data)) ELSE @]
               /\ UNCHANGED <<last_input_hash, acur, acall, output, alogged, arepd>>
  /\ Looked(a)
  /\ UNCHANGED <<files, rvars, lost, once, gone, hist, svars>>

(* The part of process_input after the external call: agent_runner.py     *)
(* 262-268 when it returned, 270-273 when it raised.                       *)
ProcessLog(a, outcome) ==
  IF outcome.ok
  THEN <<ProcessedRecord(a, Strip(araw[a]), outcome.text)>>
  ELSE <<>>

(* agent_runner.py:298, process_input: the external call returns or raises *)
AgentGivesUp(outcome) == IF outcome.ok THEN "write" ELSE "crashed"

(* agent_runner.py:270-273: the handler of a failed call returns the      *)
(* error text and the cycle goes on to write.                              *)
AgentAfterReply(outcome) == "write"

AgentCall(a, outcome) ==
  /\ apc[a] = "call"
  /\ apc' = [apc EXCEPT ![a] = AgentAfterReply(outcome)]
  /\ acall' = [acall EXCEPT ![a] = outcome]
  /\ output' = [output EXCEPT ![a] = ProcessResult(outcome)]
  /\ log' = LogAppend(log, ProcessLog(a, outcome))
  /\ alogged' = [alogged EXCEPT ![a] = Len(log') - Len(log)]
  /\ UNCHANGED <<last_input_hash, acur, araw, arepd>>
  /\ UNCHANGED <<chat, inbox, outbox, clock, rvars, hvars, svars>>

(* Variant: the remembered digest is never updated. *)
AgentKeepsHash(a) == last_input_hash[a]

(* agent_runner.py:316 `self.last_input_hash = current_hash` *)
AgentUpdatedHash(a) == acur[a]

(* agent_runner.py:301-319 *)
InboxConsumed(a) == [inbox EXCEPT ![a] = File(<<>>)]

(* agent_runner.py:288, 312: the worker opens its inbox for reading only  *)
(* and writes to its outbox alone.                                         *)
InboxAfterWrite(a) == inbox

AgentWrite(a) ==
  /\ apc[a] = "write"
  /\ apc' = [apc EXCEPT ![a] = "idle"]
  /\ outbox' = [outbox EXCEPT ![a] = File(output_content(a, output[a]))]
  /\ inbox' = InboxAfterWrite(a)
  /\ last_input_hash' = [last_input_hash EXCEPT ![a] = AgentUpdatedHash(a)]
  /\ arepd' = [arepd EXCEPT ![a] = acur[a]]
  /\ acur' = [acur EXCEPT ![a] = NoHash]
  /\ araw' = [araw EXCEPT ![a] = <<>>]
  /\ acall' = [acall EXCEPT ![a] = NoGen]
  /\ output' = [output EXCEPT ![a] = <<>>]
  /\ alogged' = [alogged EXCEPT ![a] = 0]
  /\ gone' = [gone EXCEPT ![a] = FALSE]
  /\ UNCHANGED <<chat, log, clock, rvars, calls, sup, lost, once, hist, svars>>

(* One step of worker a, the external call ending in one of `outcomes`. *)
Agent(a, outcomes) ==
  \/ AgentPoll(a)
  \/ AgentHash(a)
  \/ AgentRead(a)
  \/ \E outcome \in outcomes : AgentCall(a, outcome)
  \/ AgentWrite(a)

\* ---------------------------------------------------------- environment
(* The external producer overwrites or deletes inbox/chat.txt. *)
ProducerWrite(c) ==
  /\ chat # File(c)
  /\ chat' = File(c)
  /\ UNCHANGED <<inbox, outbox, log, clock, rvars, avars, hvars, svars>>

(* One of the writes of a producer that stops after MaxWrites of them. *)
ProducerSends(c) ==
  /\ writes < MaxWrites
  /\ writes' = writes + 1
  /\ chat' = File(c)
  /\ UNCHANGED <<inbox, outbox, log, clock, rvars, avars, hvars>>
  /\ UNCHANGED <<credential, rules_file, assign_file, model, regen, starts, pvars>>

ProducerDelete ==
  /\ chat.exists
  /\ chat' = NoFile
  /\ gone' = [gone EXCEPT !["router"] = "gone" \in hist /\ rrepd.some]
  /\ UNCHANGED <<inbox, outbox, log, clock, rvars, avars, calls, sup, lost, once, hist, svars>>

Producer ==
  \/ \E c \in ChatContents : ProducerWrite(c)
  \/ ProducerDelete

(* The messages of a producer that writes no empty text. *)
Messages == {c \in ChatContents : ~EmptyMessage(c)}

RouterWriting(a) == rpc \in {"write", "write2"} /\ target_agent = a

(* An operator moves a running worker's inbox file away and later puts    *)
(* the very same file back.                                                *)
OperatorRemove(a) ==
  /\ apc[a] # "off"
  /\ inbox[a].exists
  /\ ~RouterWriting(a)
  /\ inbox' = [inbox EXCEPT ![a] = Moved(inbox[a])]
  /\ gone' = [gone EXCEPT ![a] = "gone" \in hist /\ arepd[a].some]
  /\ UNCHANGED <<chat, outbox, log, clock, rvars, avars, calls, sup, lost, once, hist, svars>>

OperatorRestore(a) ==
  /\ ~inbox[a].exists
  /\ inbox[a] # NoFile
  /\ inbox' = [inbox EXCEPT ![a] = File(inbox[a].data)]
  /\ UNCHANGED <<chat, outbox, log, clock, rvars, avars, hvars, svars>>

Operator ==
  \/ \E a \in Workers : OperatorRemove(a)
  \/ \E a \in Workers : OperatorRestore(a)

\* ---------------------------------------------------------------- start
(* A process that is not running: never started or stopped ("off"), ended *)
(* by an exception at start-up ("died": traceback, "exit1": sys.exit(1))  *)
(* or by an exception in its loop ("crashed").                             *)
Stopped == {"off", "died", "exit1", "crashed"}

(* router.py:33 Anthropic(): the client library reads the credential from *)
(* the environment itself; without one it may raise or return a client    *)
(* whose calls fail.                                                        *)
ClientOutcomes == IF credential THEN {TRUE} ELSE {TRUE, FALSE}

(* The outcomes of an external call the start-up specification draws:    *)
(* with the credential the call returns, without it the call fails.        *)
Authorized(outcomes) == {o \in outcomes : o.ok = credential}

RouterPersistedHash == last_chat_hash

(* router.py:38-39 self.last_chat_hash = None *)
RouterFreshHash == NoHash

(* router.py:21-39 __init__, then run *)
RouterStart(constructed) ==
  /\ rpc \in Stopped
  /\ starts < MaxStarts
  /\ starts' = starts + 1
  /\ IF ~constructed
     THEN /\ rpc' = "died"
          /\ UNCHANGED <<routing_rules, last_chat_hash, rules_file, regen>>
     ELSE /\ rpc' = "idle"
          /\ routing_rules' = load_routing_rules(rules_file)
          /\ rules_file' = RulesAfterLoad(rules_file)
          /\ last_chat_hash' = RouterFreshHash
          /\ regen' = IF rules_file.exists THEN regen
                      ELSE IF regen = "none" THEN "first" ELSE "again"
  /\ UNCHANGED <<rcur, rraw, reply, intent, target_agent, rrepd, rprev>>
  /\ UNCHANGED <<files, avars, hvars, credential, assign_file, model, writes, pvars>>

(* router.py:180-181 KeyboardInterrupt *)
RouterStop ==
  /\ rpc = "idle"
  /\ rpc' = "off"
  /\ rcur' = NoHash
  /\ rraw' = <<>>
  /\ reply' = NoOutcome
  /\ intent' = ""
  /\ target_agent' = ""
  /\ UNCHANGED <<routing_rules, last_chat_hash, rrepd, rprev>>
  /\ UNCHANGED <<files, avars, hvars, svars>>

(* agent_runner.py:24-54 __init__ and 349-357 main *)
AgentStart(a) ==
  /\ apc[a] \in Stopped
  /\ starts < MaxStarts
  /\ starts' = starts + 1
  /\ IF ~credential
     THEN /\ apc' = [apc EXCEPT ![a] = "exit1"]
          /\ UNCHANGED <<last_input_hash, assign_file, model, pvars>>
     ELSE /\ apc' = [apc EXCEPT ![a] = "idle"]
          /\ model' = [model EXCEPT ![a] = load_model_assignment(a, assign_file)]
          /\ assign_file' = AssignAfterLoad(assign_file)
          /\ prompt_template' = [prompt_template EXCEPT
                                   ![a] = load_prompt_template(a, prompt_file[a])]
          /\ prompt_file' = [prompt_file EXCEPT ![a] = PromptAfterLoad(a, @)]
          /\ last_input_hash' = [last_input_hash EXCEPT ![a] = NoHash]
  /\ UNCHANGED <<acur, araw, acall, output, alogged, arepd>>
  /\ UNCHANGED <<files, rvars, hvars, credential, rules_file, regen, writes>>

(* agent_runner.py:330-331 KeyboardInterrupt *)
AgentStop(a) ==
  /\ apc[a] = "idle"
  /\ apc' = [apc EXCEPT ![a] = "off"]
  /\ acur' = [acur EXCEPT ![a] = NoHash]
  /\ araw' = [araw EXCEPT ![a] = <<>>]
  /\ acall' = [acall EXCEPT ![a] = NoGen]
  /\ output' = [output EXCEPT ![a] = <<>>]
  /\ UNCHANGED <<last_input_hash, alogged, arepd>>
  /\ UNCHANGED <<files, rvars, hvars, svars>>

(* agent_runner.py:24-54 __init__ of a worker started with an identifier  *)
(* no routing rule names: its inbox is never written, so each of its      *)
(* polls returns at the test for the file (agent_runner.py:279-280).       *)
OtherStart(a) ==
  /\ starts < MaxStarts
  /\ starts' = starts + 1
  /\ IF ~credential
     THEN UNCHANGED <<assign_file, model, pvars>>
     ELSE /\ model' = [model EXCEPT ![a] = load_model_assignment(a, assign_file)]
          /\ assign_file' = AssignAfterLoad(assign_file)
          /\ prompt_template' = [prompt_template EXCEPT
                                   ![a] = load_prompt_template(a, prompt_file[a])]
          /\ prompt_file' = [prompt_file EXCEPT ![a] = PromptAfterLoad(a, @)]
  /\ UNCHANGED <<files, rvars, avars, hvars, credential, rules_file, regen, writes>>

(* The persona file of an agent is deleted while the agent is not running. *)
PromptDelete(a) ==
  /\ a \in Workers => apc[a] \in Stopped
  /\ prompt_file[a].exists
  /\ prompt_file' = [prompt_file EXCEPT ![a] = NoFile]
  /\ UNCHANGED <<files, rvars, avars, hvars, credential, rules_file, assign_file,
                 model, regen, starts, writes, prompt_template>>

AllStopped == rpc \in Stopped /\ \A a \in Workers : apc[a] \in Stopped

(* An edit of the configuration between runs: the rules file is deleted   *)
(* or replaced, the assignments file is deleted or replaced.               *)
ConfigEdit ==
  /\ AllStopped
  /\ \/ /\ rules_file' \in ({NoFile} \cup RuleFiles) \ {rules_file}
        /\ UNCHANGED assign_file
     \/ /\ assign_file' \in {NoFile, File(CustomAssignText)} \ {assign_file}
        /\ UNCHANGED rules_file
  /\ UNCHANGED <<files, rvars, avars, hvars, credential, model, regen, starts,
                 writes, pvars>>

\* ------------------------------------------------------- specifications
(* The hand-over: the router with the default rules, every message a      *)
(* general one and so routed to the helper, whose worker runs.             *)
Init == InitWith({DefaultRules}, {"helper"}, {})

Next ==
  \/ Router({Answer(Str("general", TRUE, TRUE))})
  \/ Agent("helper", GenOutcomes)
  \/ \E c \in Messages : ProducerWrite(c)

Spec == Init /\ [][Next]_vars

NextHandoff ==
  \/ Router({Answer(Str("general", TRUE, TRUE))})
  \/ RouterChunked
  \/ Agent("helper", {Generated})
  \/ \E c \in Messages : ProducerWrite(c)

InitHandoff == InitWith({DefaultRules}, {"helper"}, {"handoff"})

SpecHandoff == InitHandoff /\ [][NextHandoff]_vars

(* The dispatch: the router alone, under either configuration and every   *)
(* outcome of the classification.                                          *)
InitDispatch == InitWith(RuleConfigs, {}, {"prev"})

NextDispatch ==
  \/ Router(ClassifyOutcomes)
  \/ Producer

SpecDispatch == InitDispatch /\ [][NextDispatch]_vars

(* The change detection: router and worker polling locations that are     *)
(* overwritten, emptied, deleted and put back.                             *)
NextWatch ==
  \/ Router({Answer(Str("general", TRUE, TRUE))})
  \/ Agent("helper", {Generated})
  \/ \E c \in Messages : ProducerWrite(c)
  \/ ProducerDelete
  \/ Operator

InitWatch == InitWith({DefaultRules}, {"helper"}, {"gone"})

SpecWatch == InitWatch /\ [][NextWatch]_vars

NextEdit ==
  \/ Router({Answer(Str("general", TRUE, TRUE))})
  \/ Agent("helper", {Generated})
  \/ \E c \in Messages \cup {<<>>} : ProducerWrite(c)

InitEdit == InitWith({DefaultRules}, {"helper"}, {"prev"})

SpecEdit == InitEdit /\ [][NextEdit]_vars

(* The delivery: a producer that stops, the loops of the router and of    *)
(* the worker scheduled fairly (each iteration is followed by another     *)
(* after the poll interval), and external calls that return.               *)
InitLive == InitWith({DefaultRules}, {"helper"}, {"live"})

RouterLive == Router({Answer(Str("general", FALSE, FALSE))})

AgentLive == Agent("helper", {Generated})

NextLive ==
  \/ RouterLive
  \/ AgentLive
  \/ \E c \in {<<Ch("a")>>, <<Ch("b")>>} : ProducerSends(c)

SpecLive ==
  InitLive /\ [][NextLive]_vars /\ WF_vars(RouterLive) /\ WF_vars(AgentLive)

(* The recovery: as the delivery, with generation calls that may fail. *)
AgentRecovers == Agent("helper", GenOutcomes)

NextRecover ==
  \/ RouterLive
  \/ AgentRecovers
  \/ \E c \in {<<Ch("a")>>, <<Ch("b")>>} : ProducerSends(c)

SpecRecover ==
  InitLive /\ [][NextRecover]_vars /\ WF_vars(RouterLive) /\ WF_vars(AgentRecovers)

(* The independence: the router and two workers, of which only the       *)
(* helper's loop is known to go on; the router and the coder may stop at  *)
(* any step, an external call that never returns included.                 *)
(* A worker finds in its inbox an envelope an earlier run left there.     *)
LeftEnvelope(a) ==
  File(routed_content(<<Ch("a")>>, IF a = "coder" THEN "bug_fix" ELSE "general", 0))

InitStall ==
  /\ chat = NoFile
  /\ inbox = [a \in AgentIds |-> IF a \in Workers THEN LeftEnvelope(a) ELSE NoFile]
  /\ outbox = [a \in Workers |-> NoFile]
  /\ log = <<>>
  /\ clock = 1
  /\ routing_rules = DefaultRules
  /\ rpc = "idle"
  /\ last_chat_hash = NoHash
  /\ rcur = NoHash
  /\ rraw = <<>>
  /\ reply = NoOutcome
  /\ intent = ""
  /\ target_agent = ""
  /\ rrepd = NoHash
  /\ rprev = NoHash
  /\ apc = [a \in Workers |-> "idle"]
  /\ last_input_hash = [a \in Workers |-> NoHash]
  /\ acur = [a \in Workers |-> NoHash]
  /\ araw = [a \in Workers |-> <<>>]
  /\ acall = [a \in Workers |-> NoGen]
  /\ output = [a \in Workers |-> <<>>]
  /\ alogged = [a \in Workers |-> 0]
  /\ arepd = [a \in Workers |-> NoHash]
  /\ calls = [a \in Workers |-> <<>>]
  /\ sup = [a \in Workers |-> "no"]
  /\ lost = {}
  /\ once = {}
  /\ gone = [w \in Watchers |-> FALSE]
  /\ hist = {}
  /\ credential = TRUE
  /\ rules_file = File(json_dump(DefaultTable))
  /\ assign_file = File(json_dump(DefaultAssignments))
  /\ model = [a \in Personas |-> IF a \in Workers THEN load_model_assignment(a, assign_file) ELSE ""]
  /\ prompt_file = [a \in Personas |-> IF a \in Workers THEN File(get_default_prompt(a)) ELSE NoFile]
  /\ prompt_template = [a \in Personas |-> IF a \in Workers THEN get_default_prompt(a) ELSE NoPrompt]
  /\ regen = "none"
  /\ starts = 0
  /\ writes = 0

HelperLoop == Agent("helper", {Generated})

NextStall ==
  \/ Router({Answer(Str("general", FALSE, FALSE))})
  \/ HelperLoop
  \/ Agent("coder", {Generated})
  \/ ProducerWrite(<<Ch("b")>>)

SpecStall == InitStall /\ [][NextStall]_vars /\ WF_vars(HelperLoop)

(* The external calls: classification and generation that return or fail. *)
NextRetry ==
  \/ Router({Answer(Str("general", FALSE, FALSE)), CallFailed})
  \/ Agent("helper", GenOutcomes)
  \/ \E c \in Messages : ProducerWrite(c)

SpecRetry == Init /\ [][NextRetry]_vars

(* The activity log: the router and two workers appending to it. *)
InitLog == InitWith({DefaultRules}, Workers, {})

NextLog ==
  \/ Router({Answer(Str("bug_fix", FALSE, FALSE)), CallFailed})
  \/ \E a \in Workers : Agent(a, {Generated})
  \/ \E c \in Messages : ProducerWrite(c)

SpecLog == InitLog /\ [][NextLog]_vars

(* The start-up: processes started, stopped and started again, with and   *)
(* without the credential, over configuration files that are absent,      *)
(* generated or edited.                                                    *)
InitStart ==
  /\ chat = NoFile
  /\ inbox = [a \in AgentIds |-> NoFile]
  /\ outbox = [a \in Workers |-> NoFile]
  /\ log = <<>>
  /\ clock = 1
  /\ routing_rules = <<>>
  /\ rpc = "off"
  /\ last_chat_hash = NoHash
  /\ rcur = NoHash
  /\ rraw = <<>>
  /\ reply = NoOutcome
  /\ intent = ""
  /\ target_agent = ""
  /\ rrepd = NoHash
  /\ rprev = NoHash
  /\ apc = [a \in Workers |-> "off"]
  /\ last_input_hash = [a \in Workers |-> NoHash]
  /\ acur = [a \in Workers |-> NoHash]
  /\ araw = [a \in Workers |-> <<>>]
  /\ acall = [a \in Workers |-> NoGen]
  /\ output = [a \in Workers |-> <<>>]
  /\ alogged = [a \in Workers |-> 0]
  /\ arepd = [a \in Workers |-> NoHash]
  /\ calls = [a \in Workers |-> <<>>]
  /\ sup = [a \in Workers |-> "no"]
  /\ lost = {}
  /\ once = {}
  /\ gone = [w \in Watchers |-> FALSE]
  /\ hist = {}
  /\ credential \in BOOLEAN
  /\ rules_file \in {NoFile, File(CustomText)}
  /\ assign_file \in {NoFile, File(CustomAssignText)}
  /\ model = [a \in Personas |-> ""]
  /\ prompt_file = [a \in Personas |-> NoFile]
  /\ prompt_template = [a \in Personas |-> NoPrompt]
  /\ regen = "none"
  /\ starts = 0
  /\ writes = 0

NextStart ==
  \/ \E constructed \in ClientOutcomes : RouterStart(constructed)
  \/ RouterStop
  \/ \E a \in Workers : AgentStart(a) \/ AgentStop(a)
  \/ ConfigEdit
  \/ Router(Authorized({Answer(Str("feature_request", FALSE, FALSE)), CallFailed}))
  \/ Agent("coder", Authorized(GenOutcomes))
  \/ ProducerWrite(<<Ch("a")>>)

SpecStart == InitStart /\ [][NextStart]_vars

(* The personas: workers started, stopped and started again, with a known *)
(* and with an unknown identifier, over persona files that are absent,    *)
(* generated or deleted.                                                   *)
NextPersona ==
  \/ \E a \in Workers : AgentStart(a) \/ AgentStop(a)
  \/ OtherStart("scribe")
  \/ \E a \in Personas : PromptDelete(a)

SpecPersona == InitStart /\ [][NextPersona]_vars

\* ----------------------------------------------------------- properties
(* The stamps of the envelope headers in a content. *)
StampsOf(d) == { d[i].n : i \in { j \in 1..Len(d) : d[j].k = "hdr" } }

(* d is, up to surrounding whitespace, the whole envelope stamped t. *)
IsEnvelope(d, t) ==
  /\ Len(Strip(d)) >= 3
  /\ Strip(d)[1].k = "hdr"
  /\ Strip(d)[1].n = t
  /\ Strip(d)[Len(Strip(d))].k = "end"
  /\ StampsOf(d) = {t}

(* The external calls of worker a whose input carries stamp t. *)
CallsFor(a, t) == { i \in 1..Len(calls[a]) : t \in StampsOf(calls[a][i]) }

RouterPastTest == rpc \in {"read", "classify", "classified", "route", "write", "write2", "log"}

AgentPastTest(a) == apc[a] \in {"read", "call", "write"}

(* The router's, or worker a's, poll compares digests in this step. *)
RouterCompares == rpc = "hash" /\ rpc' # "hash"

AgentCompares(a) == apc[a] = "hash" /\ apc'[a] # "hash"

(* C2 (idempotence of change detection).  A poll that computes the digest  *)
(* that the last change-reporting poll of the same loop computed reports   *)
(* no change: it returns and leaves the inboxes, the response, the log and *)
(* the remembered digest as they are.                                      *)
C2_Idempotence ==
  [][ /\ ( RouterCompares /\ chat.exists /\ Md5(chat.data) = rrepd )
         => ( /\ rpc' = "idle"
              /\ UNCHANGED <<inbox, outbox, log, last_chat_hash, rrepd>> )
      /\ \A a \in Workers :
           ( AgentCompares(a) /\ inbox[a].exists /\ Md5(inbox[a].data) = arepd[a] )
           => ( /\ apc'[a] = "idle"
                /\ UNCHANGED <<inbox, outbox, log, last_input_hash, arepd>> )
    ]_vars

(* Router and worker both compare the digest of content they have already *)
(* reported.                                                               *)
C2_Witness ==
  /\ rpc = "hash" /\ chat.exists /\ Md5(chat.data) = rrepd
  /\ apc["helper"] = "hash" /\ inbox["helper"].exists
  /\ Md5(inbox["helper"].data) = arepd["helper"]

(* C3 (atomic hand-off).  What a worker processes is a whole envelope,     *)
(* and the digest that made the worker see a change is the digest of that  *)
(* whole envelope: the worker never detects a change on, or processes,     *)
(* content that is only part of the envelope being written.                *)
C3_AtomicHandoff ==
  \A a \in Workers :
    apc[a] \in {"call", "write"} =>
      /\ \E t \in 1..clock : IsEnvelope(araw[a], t)
      /\ acur[a] = Md5(araw[a])

(* C4 (routing correctness).  When the classification is a key i of the    *)
(* routing rules, the router writes an envelope made of the trimmed        *)
(* message and the label i into the inbox of routing_rules[i], and into no *)
(* other inbox.                                                            *)
C4_RoutingCorrectness ==
  /\ [](( rpc = "log" /\ intent \in DOMAIN routing_rules )
         => inbox[routing_rules[intent]] =
              File(<<Hdr(clock, intent)>> \o Strip(rraw) \o <<EndMark, Ws>>))
  /\ [][ \A b \in AgentIds :
           ( inbox'[b] # inbox[b] /\ intent \in DOMAIN routing_rules )
           => b = routing_rules[intent] ]_vars

(* A mixed-case, padded answer was classified under the hand-edited rules *)
(* and the envelope lies in the inbox those rules name.                    *)
C4_Witness ==
  /\ rpc = "log"
  /\ routing_rules = CustomRules
  /\ intent = "feature_request"
  /\ inbox["coder"] = File(<<Hdr(clock, "feature_request"), Ch("a"), EndMark, Ws>>)
  /\ \A b \in AgentIds \ {"coder"} : ~inbox[b].exists

(* C5 (fallback totality).  When the external call fails, or its           *)
(* normalised answer is no key of the routing rules, the classification is *)
(* "general" and the cycle goes on to routing; and the routing rules       *)
(* resolve "general" to an agent identifier.                               *)
C5_FallbackTotality ==
  /\ [](ResolveRoute(routing_rules, "general") \in AgentIds)
  /\ [][ ( rpc = "classified" /\ rpc' # "classified" )
         => /\ rpc' = "route"
            /\ ( ~reply.ok \/ Normalize(reply.text).label \notin DOMAIN routing_rules )
               => intent' = "general" ]_vars

(* The external call failed under rules without a "general" key, and the  *)
(* router goes on to route a "general" message.                            *)
C5_Witness ==
  /\ rpc = "route"
  /\ intent = "general"
  /\ "general" \notin DOMAIN routing_rules
  /\ log # <<>>
  /\ log[Len(log)] = ClassifyErrorRecord

(* C6 (empty input is never dispatched).  A poll that reads content which  *)
(* is empty after trimming returns without a write to an inbox or to the   *)
(* log and without remembering a digest; the router never classifies or    *)
(* routes an empty message, and no envelope carries one.                   *)
C6_EmptyNotDispatched ==
  /\ [](( rpc \in {"classify", "classified", "route", "write", "write2", "log"} )
         => Strip(rraw) # <<>>)
  /\ [](\A b \in AgentIds :
          inbox[b].exists =>
            ( inbox[b].data = <<>> \/ \E t \in 1..clock : IsEnvelope(inbox[b].data, t) ))
  /\ [][ ( rpc = "read" /\ rpc' # "read" /\ chat.exists /\ Strip(chat.data) = <<>> )
         => ( rpc' = "idle" /\ UNCHANGED <<inbox, log, last_chat_hash>> ) ]_vars

(* The router polled a file of whitespace and returned. *)
C6_Witness ==
  /\ rpc = "idle"
  /\ chat = File(<<Ws>>)
  /\ rprev = Md5(<<Ws>>)
  /\ last_chat_hash # Md5(<<Ws>>)

(* C7 (a generation failure is surfaced).  When the generation call fails, *)
(* the cycle ends with a response file whose body is the error prefix      *)
(* followed by the failure's message, and the worker is idle again.        *)
C7_FailureSurfaced ==
  [][ \A a \in Workers :
        ( apc[a] = "write" /\ apc'[a] # "write" /\ ~acall[a].ok )
        => /\ apc'[a] = "idle"
           /\ outbox'[a].exists
           /\ Len(ResponseBody(outbox'[a].data)) >= 1
           /\ ResponseBody(outbox'[a].data)[1].k = "err"
           /\ Tail(ResponseBody(outbox'[a].data)) = acall[a].text ]_vars

(* The helper is idle and its response file holds an error description. *)
C7_Witness ==
  /\ apc["helper"] = "idle"
  /\ outbox["helper"] = File(<<OutHdr("helper"), ErrTok("Error processing request: "),
                               Ch("e"), EndMark, Marker, Ws>>)

(* C8 (processing record).  Every handled input has a log record: when    *)
(* the generation step of a cycle is over, one record of the input and the *)
(* outcome has been appended, whether the call was answered or failed.     *)
C8_ProcessingRecord ==
  \A a \in Workers : apc[a] = "write" => alogged[a] = 1

C11_NothingEscapes ==
  /\ rpc # "crashed"
  /\ \A a \in Workers : apc[a] # "crashed"

(* C12 (dispatch errors fail loudly).  A worker whose identifier has no   *)
(* entry in the model assignments does not get past its start-up: every   *)
(* running worker is named in the persisted assignments, none runs on a   *)
(* silently defaulted model.                                               *)
C12_FailsLoudly ==
  \A a \in Workers :
    apc[a] \notin Stopped =>
      /\ assign_file.exists
      /\ a \in DOMAIN json_load(assign_file.data)

(* C13 (start-up configuration failure is fatal).  Without the credential *)
(* neither the router nor a worker is ever in its polling loop: each is   *)
(* not started or has ended at start-up, so none polls, calls or writes.  *)
C13_FatalWithoutCredential ==
  ~credential =>
    /\ rpc \in {"off", "died"}
    /\ \A a \in Workers : apc[a] \in {"off", "exit1"}

(* A step of a router cycle, a step of a worker cycle. *)
RouterCycleStep == rpc \notin Stopped /\ rpc' # rpc

AgentCycleStep == \E a \in Workers : apc[a] \notin Stopped /\ apc'[a] # apc[a]

(* C14 (routing determinism, read-only dispatch table).  The agent a      *)
(* cycle resolves is rules[intent] when the intent is a key of the rules  *)
(* and "helper" otherwise, whatever else the state holds; and no step of  *)
(* a router cycle or of a worker cycle changes the rules in memory, the   *)
(* model assignment or either persisted configuration file.               *)
C14_ReadOnlyDispatch ==
  [][ /\ (rpc = "route" /\ rpc' = "write") =>
           target_agent' = IF intent \in DOMAIN routing_rules
                           THEN routing_rules[intent] ELSE "helper"
      /\ (RouterCycleStep \/ AgentCycleStep) =>
           UNCHANGED <<routing_rules, model, rules_file, assign_file>> ]_vars

C14_Witness ==
  /\ rpc = "log"
  /\ target_agent = "coder"
  /\ routing_rules = CustomRules
  /\ apc["coder"] = "write"
  /\ model["coder"] = Sonnet

(* C15 (default-config reproducibility).  A start of the router that      *)
(* finds no rules file writes the default table and holds the default     *)
(* rules, the same text at every such start; a start that finds the file  *)
(* leaves it as it is and holds exactly the rules the file contains.      *)
C15_Reproducible ==
  [][ (rpc \in Stopped /\ rpc' = "idle") =>
        /\ json_load(rules_file'.data) = routing_rules'
        /\ IF rules_file.exists
           THEN /\ rules_file' = rules_file
                /\ routing_rules' = json_load(rules_file.data)
           ELSE /\ rules_file' = File(json_dump(DefaultTable))
                /\ routing_rules' = DefaultRules ]_vars

C15_Witness ==
  /\ regen = "again"
  /\ rpc = "idle"
  /\ rules_file = File(json_dump(DefaultTable))
  /\ routing_rules = DefaultRules

AppendsRouted == rpc = "log" /\ rpc' = "idle"

AppendsError == rpc = "classified" /\ rpc' = "route" /\ ~reply.ok

AppendsProcessed(a) == apc[a] = "call" /\ apc'[a] = "write" /\ acall'[a].ok

(* C17 (append-only activity log).  Whatever the interleaving of the      *)
(* router and the workers, a step leaves every earlier record of the log  *)
(* in place and adds at most one record; each append of the router and of *)
(* a worker adds exactly its own record, whole, at the end.                *)
C17_AppendOnly ==
  [][ /\ Len(log') \in {Len(log), Len(log) + 1}
      /\ SubSeq(log', 1, Len(log)) = log
      /\ AppendsRouted =>
           log' = log \o <<RoutedRecord(intent, target_agent, clock)>>
      /\ AppendsError => log' = log \o <<ClassifyErrorRecord>>
      /\ \A a \in Workers :
           AppendsProcessed(a) =>
             log' = log \o <<ProcessedRecord(a, Strip(araw[a]), acall'[a].text)>>
      /\ log' # log =>
           AppendsRouted \/ AppendsError \/ \E a \in Workers : AppendsProcessed(a)
    ]_vars

C17_Witness ==
  /\ rpc = "log"
  /\ apc["helper"] = "call"
  /\ apc["coder"] = "call"
  /\ \E i \in 1..Len(log) : log[i].kind = "classify_error"
  /\ \E i \in 1..Len(log) : log[i].kind = "routed"

(* C18 (single best-effort call, no retry).  A cycle makes its call for a *)
(* digest other than the remembered one and makes it once: after the      *)
(* reply, failed or not, the router goes on to route (a failure under the *)
(* fallback label) and the worker goes on to write (a failure as the      *)
(* error artifact); and the cycle ends remembering the digest it was      *)
(* started for, so no later poll of the same content calls again.          *)
C18_SingleCall ==
  [][ /\ (rpc = "classify" /\ rpc' # rpc) =>
           rpc' = "classified" /\ rcur # last_chat_hash
      /\ (rpc = "classified" /\ rpc' # rpc) =>
           /\ rpc' = "route"
           /\ ~reply.ok => intent' = "general"
      /\ rpc' = "classify" => rpc \in {"read", "classify"}
      /\ (rpc = "log" /\ rpc' = "idle") => last_chat_hash' = rcur
      /\ \A a \in Workers :
           /\ (apc[a] = "call" /\ apc'[a] # apc[a]) =>
                /\ apc'[a] = "write"
                /\ acur[a] # last_input_hash[a]
                /\ ~acall'[a].ok =>
                     output'[a] = <<ErrTok("Error processing request: ")>>
                                    \o acall'[a].text
           /\ apc'[a] = "call" => apc[a] \in {"read", "call"}
           /\ (apc[a] = "write" /\ apc'[a] = "idle") =>
                /\ last_input_hash'[a] = acur[a]
                /\ outbox'[a] = File(output_content(a, output[a])) ]_vars

C18_Witness ==
  /\ rpc = "hash"
  /\ chat.exists
  /\ last_chat_hash = get_file_hash(chat)
  /\ \E i \in 1..Len(log) : log[i].kind = "classify_error"
  /\ apc["helper"] = "hash"
  /\ inbox["helper"].exists
  /\ last_input_hash["helper"] = get_file_hash(inbox["helper"])
  /\ \E i \in 1..Len(outbox["helper"].data) : outbox["helper"].data[i].k = "err"

(* The producer has stopped and left a message in the shared inbox. *)
LastMessageLeft ==
  /\ writes = MaxWrites
  /\ chat.exists
  /\ Strip(chat.data) # <<>>

(* The helper's inbox holds a complete envelope carrying that message. *)
LastMessageRouted ==
  /\ inbox["helper"].exists
  /\ \E ts \in 1..clock :
       inbox["helper"].data = routed_content(Strip(chat.data), "general", ts)

(* The helper's outbox holds the response made from that envelope. *)
LastMessageAnswered ==
  /\ LastMessageRouted
  /\ outbox["helper"].exists
  /\ arepd["helper"] = get_file_hash(inbox["helper"])

(* C19 (end-to-end delivery of the latest message).  Under fair loops and *)
(* calls that return, the message the producer's last write leaves is     *)
(* eventually carried by an envelope in the target inbox and eventually   *)
(* answered in the target outbox, however the earlier writes interleaved  *)
(* with the polls.  (When the envelope of the last route already carries  *)
(* the message, there is nothing left to deliver.)                         *)
C19_Delivery ==
  /\ LastMessageLeft ~> LastMessageRouted
  /\ LastMessageLeft ~> LastMessageAnswered

(* C20 (at-most-once signalling).  A cycle that detected a change has the *)
(* digest of that change remembered before its downstream processing      *)
(* starts: while the router classifies, routes, writes or logs, and while  *)
(* a worker calls or writes, the remembered digest is already the one the  *)
(* cycle computed.                                                          *)
C20_RememberedFirst ==
  /\ rpc \in {"classify", "classified", "route", "write", "write2", "log"} =>
       last_chat_hash = rcur
  /\ \A a \in Workers :
       apc[a] \in {"call", "write"} => last_input_hash[a] = acur[a]

(* C21 (intent labels stay inside the mapping).  Under every rules        *)
(* configuration and every outcome of the classification, the intent      *)
(* label in the header of an envelope in an agent inbox is a key of the   *)
(* routing rules, the fallback label included.                             *)
C21_LabelsInMapping ==
  \A a \in AgentIds :
    (inbox[a].exists /\ inbox[a].data # <<>> /\ inbox[a].data[1].k = "hdr") =>
      inbox[a].data[1].s \in DOMAIN routing_rules

(* The router is dispatching: it has detected a change and is classifying, *)
(* routing or logging; otherwise it is idle or polling.                    *)
Dispatching(pc) == pc \in {"classify", "classified", "route", "write", "write2", "log"}

(* C22 (router state machine).  The router starts dispatching only from a *)
(* poll that found a digest other than the remembered one over a          *)
(* non-empty message; it stops dispatching only by completing its one     *)
(* routing attempt, whether the classification succeeded or failed, and   *)
(* then the content it attempted is the one remembered as seen.            *)
C22_RouterMachine ==
  [][ /\ (~Dispatching(rpc) /\ Dispatching(rpc')) =>
           /\ rpc = "read"
           /\ rpc' = "classify"
           /\ rcur # last_chat_hash
           /\ Strip(rraw') # <<>>
      /\ (Dispatching(rpc) /\ ~Dispatching(rpc')) =>
           /\ rpc = "log"
           /\ rpc' = "idle"
           /\ last_chat_hash' = Md5(rraw) ]_vars

(* The routing-decision records of the log. *)
RoutedAt == {i \in 1..Len(log) : log[i].kind = "routed"}

(* C23 (router log follows the envelope).  The routing-decision record is *)
(* appended in a state in which the target inbox already holds the whole  *)
(* envelope of the cycle, and it names the intent and the target of that  *)
(* envelope; every record in the log belongs to a cycle that has          *)
(* completed, and the completed cycles have one record each.               *)
C23_LogFollowsEnvelope ==
  [][ /\ (rpc = "log" /\ rpc' = "idle") =>
           /\ inbox[target_agent] = File(routed_content(Strip(rraw), intent, clock))
           /\ Len(log') = Len(log) + 1
           /\ log'[Len(log')].kind = "routed"
           /\ log'[Len(log')].s = intent
           /\ log'[Len(log')].t = target_agent
           /\ log'[Len(log')].n = clock
      /\ \A i \in RoutedAt : log[i].n < clock
      /\ Cardinality(RoutedAt) = clock - 1
      /\ Cardinality({log[i].n : i \in RoutedAt}) = clock - 1 ]_vars

C23_Witness ==
  /\ rpc = "write2"
  /\ clock = 2
  /\ inbox["helper"].data = EnvelopeHead("general", 2)
  /\ \E i \in RoutedAt : log[i].n = 1 /\ log[i].s = "general" /\ log[i].t = "helper"

(* C24 (worker step order).  A worker appends its processing record only  *)
(* after it has written the response: at the step that appends the record *)
(* the worker's outbox holds the response of that cycle, so the record is *)
(* never in the log while the outbox holds the previous response.          *)
C24_ResponseBeforeRecord ==
  [][ \A a \in Workers :
        AppendsProcessed(a) =>
          outbox'[a] = File(output_content(a, acall'[a].text)) ]_vars

(* The helper's last cycle ended with the error artifact in its outbox. *)
FailureBehind ==
  /\ apc["helper"] = "idle"
  /\ outbox["helper"].exists
  /\ \E i \in 1..Len(outbox["helper"].data) : outbox["helper"].data[i].k = "err"

(* The helper's inbox holds a whole envelope other than the remembered one. *)
NextEnvelope ==
  /\ inbox["helper"].exists
  /\ \E t \in 1..clock : IsEnvelope(inbox["helper"].data, t)
  /\ get_file_hash(inbox["helper"]) # last_input_hash["helper"]

(* C25 (recovery after a generation failure).  A worker whose call was    *)
(* made, failed or not, is eventually polling again; and when a failed    *)
(* cycle is behind it and its inbox holds another envelope, it eventually *)
(* makes the call for an envelope, and from there writes and polls again. *)
C25_Recovery ==
  /\ (apc["helper"] = "call") ~> (apc["helper"] = "idle")
  /\ (FailureBehind /\ NextEnvelope) ~> (apc["helper"] = "call")

C25_Witness ==
  /\ apc["helper"] = "call"
  /\ IsEnvelope(araw["helper"], 2)
  /\ outbox["helper"].exists
  /\ \E i \in 1..Len(outbox["helper"].data) : outbox["helper"].data[i].k = "err"

(* The helper's inbox holds the whole envelope of stamp t, and its digest *)
(* is not the one the helper remembers.                                    *)
Pending(t) ==
  /\ inbox["helper"].exists
  /\ IsEnvelope(inbox["helper"].data, t)
  /\ get_file_hash(inbox["helper"]) # last_input_hash["helper"]

(* A loop starts a cycle only when it is idle and makes a call only from  *)
(* the read of that cycle; a step of one loop changes nothing another     *)
(* loop holds in memory.                                                    *)
OwnStepsOnly ==
  /\ rpc' = "hash" => rpc \in {"idle", "hash"}
  /\ rpc' = "classify" => rpc \in {"read", "classify"}
  /\ rpc' # rpc => UNCHANGED avars
  /\ \A a \in Workers :
       /\ apc'[a] = "hash" => apc[a] \in {"idle", "hash"}
       /\ apc'[a] = "call" => apc[a] \in {"read", "call"}
       /\ apc'[a] # apc[a] =>
            /\ UNCHANGED rvars
            /\ \A b \in Workers \ {a} :
                 /\ apc'[b] = apc[b]
                 /\ last_input_hash'[b] = last_input_hash[b]
                 /\ acur'[b] = acur[b]
                 /\ araw'[b] = araw[b]
                 /\ outbox'[b] = outbox[b]

(* C26 (loop independence, no self-overlap).  A loop starts a cycle only  *)
(* when it is idle and makes a call only from the read of that cycle, so  *)
(* one cycle and one call at most are in progress in it; a step of one    *)
(* loop changes nothing another loop holds in memory; and whatever the    *)
(* router and the coder do, stopping for ever in an external call         *)
(* included, the helper comes to process an envelope that is in its inbox *)
(* for as long as it stays there.                                          *)
C26_Independent ==
  /\ [][OwnStepsOnly]_vars
  /\ \A t \in 0..MaxClock :
       Pending(t) ~> (apc["helper"] = "call" \/ ~Pending(t))

C26_Witness ==
  /\ rpc = "classify"
  /\ apc["coder"] = "call"
  /\ apc["helper"] = "call"
  /\ araw["helper"] = inbox["helper"].data
  /\ IsEnvelope(araw["helper"], 0)

(* C27 (fingerprint matches what was processed).  At the end of a cycle   *)
(* the digest the router or a worker remembers is the digest of the       *)
(* content that cycle read and processed, also when the location was      *)
(* written between the cycle's digest computation and its read.            *)
C27_DigestOfProcessed ==
  [][ /\ (rpc = "log" /\ rpc' = "idle") => last_chat_hash' = Md5(rraw)
      /\ \A a \in Workers :
           (apc[a] = "write" /\ apc'[a] = "idle") =>
             last_input_hash'[a] = Md5(araw[a]) ]_vars

(* C28 (fingerprints do not survive a restart).  A start of the router or *)
(* of a worker leaves it with no remembered digest, whatever the previous *)
(* run remembered; with none remembered, the poll of an existing location *)
(* passes the digest comparison and the read of a non-empty message goes  *)
(* on to process it.                                                        *)
C28_NoDigestAfterStart ==
  [][ /\ (rpc \in Stopped /\ rpc' = "idle") => last_chat_hash' = NoHash
      /\ (rpc = "hash" /\ rpc' # rpc /\ last_chat_hash = NoHash /\ chat.exists) =>
           rpc' = "read" /\ rcur' = Md5(chat.data)
      /\ (rpc = "read" /\ rpc' # rpc /\ chat.exists /\ Strip(chat.data) # <<>>) =>
           rpc' = "classify" /\ rraw' = chat.data
      /\ \A a \in Workers :
           /\ (apc[a] \in Stopped /\ apc'[a] = "idle") => last_input_hash'[a] = NoHash
           /\ (/\ apc[a] = "hash"
               /\ apc'[a] # apc[a]
               /\ last_input_hash[a] = NoHash
               /\ inbox[a].exists) =>
                apc'[a] = "read" /\ acur'[a] = Md5(inbox[a].data)
           /\ (/\ apc[a] = "read"
               /\ apc'[a] # apc[a]
               /\ inbox[a].exists
               /\ Strip(inbox[a].data) # <<>>) =>
                apc'[a] = "call" /\ araw'[a] = inbox[a].data ]_vars

C28_Witness ==
  /\ rpc = "classify"
  /\ starts >= 2
  /\ last_chat_hash = NoHash
  /\ rcur = Md5(rraw)
  /\ rrepd = rcur

(* C29 (persona materialization round-trip).  Where persona files are     *)
(* only ever written by the workers themselves, the template a worker     *)
(* holds is on every run the one the run that wrote the file out used,    *)
(* the default persona of its identifier; for an identifier without a     *)
(* built-in persona that is the generic persona naming the agent.          *)
C29_PersonaRoundTrip ==
  \A a \in Personas :
    prompt_template[a] # NoPrompt =>
      /\ prompt_template[a] = get_default_prompt(a)
      /\ a \notin KnownPersonas =>
           \E i \in 1..Len(prompt_template[a]) : prompt_template[a][i] = Generic(a)
====
